---- MODULE Spec2Model ----
(***************************************************************************)
(* Dead-reckoning position predictors of FREE_long_lat_calc:               *)
(*   utils/location_functions.py  predict_future_dist_with_dir_and_speed,  *)
(*                                _bearing, predict_future_dist_with_history*)
(*   loc_predict_func.py          predict_future_distance                  *)
(*                                                                         *)
(* Number representation.  The code computes in IEEE doubles; the model    *)
(* computes in integers:                                                   *)
(*   - angles, latitudes and longitudes are whole degrees;                 *)
(*   - distances are whole meters, times whole seconds;                    *)
(*   - sines and cosines are fixed-point with TrigScale units per 1.0;     *)
(*   - a quotient is rounded to the nearest unit (RDiv), once, where the   *)
(*     double quotient is rounded to the nearest double;                   *)
(*   - percent_complete is a whole percent.                                *)
(* math.cos(math.radians(90.0)) is 6.1e-17 in doubles, not 0: where the    *)
(* code divides by a cosine the model keeps that residue as the smallest   *)
(* positive fixed-point value (CosResidue), where the cosine or sine is a  *)
(* factor the residue is below every resolution and is 0.                  *)
(***************************************************************************)
EXTENDS Integers, Sequences, FiniteSets, TLC

(* ------------------------------ bounds -------------------------------- *)
\* longest history list drawn as an input
MaxLen == 3
\* speeds drawn: -4000, 0, 1 and 4000*k for k in 1..MaxSpeedMult
MaxSpeedMult == 1
\* times drawn: -100 and 100*k for k in 0..MaxTimeMult
MaxTimeMult == 1

\* longest track two concurrent calls share
MaxConcLen == 2

(* --------------------------- arithmetic -------------------------------- *)
Abs(x) == IF x < 0 THEN -x ELSE x

Sgn(x) == IF x < 0 THEN -1 ELSE IF x > 0 THEN 1 ELSE 0

\* a / b for b # 0, rounded to the nearest integer (half away from zero)
RDiv(a, b) == Sgn(a) * Sgn(b) * ((Abs(a) + (Abs(b) \div 2)) \div Abs(b))

\* fixed-point resolution of math.sin / math.cos values
TrigScale == 10000

\* v * c / TrigScale for a fixed-point trig value c, without overflowing
MulTrig(v, c) ==
    LET a == Abs(v)
        b == Abs(c)
    IN  Sgn(v) * Sgn(c) *
        ((a \div TrigScale) * b + RDiv((a % TrigScale) * b, TrigScale))

\* round(sin(a degrees) * TrigScale) for a = 0..90, at index a + 1
SinTable ==
    << 0, 175, 349, 523, 698, 872, 1045, 1219, 1392, 1564,
       1736, 1908, 2079, 2250, 2419, 2588, 2756, 2924, 3090, 3256,
       3420, 3584, 3746, 3907, 4067, 4226, 4384, 4540, 4695, 4848,
       5000, 5150, 5299, 5446, 5592, 5736, 5878, 6018, 6157, 6293,
       6428, 6561, 6691, 6820, 6947, 7071, 7193, 7314, 7431, 7547,
       7660, 7771, 7880, 7986, 8090, 8192, 8290, 8387, 8480, 8572,
       8660, 8746, 8829, 8910, 8988, 9063, 9135, 9205, 9272, 9336,
       9397, 9455, 9511, 9563, 9613, 9659, 9703, 9744, 9781, 9816,
       9848, 9877, 9903, 9925, 9945, 9962, 9976, 9986, 9994, 9998,
       10000 >>

\* math.sin(math.radians(a)), a in whole degrees
SinDeg(a) ==
    LET r == a % 360
    IN  IF r <= 90 THEN SinTable[r + 1]
        ELSE IF r <= 180 THEN SinTable[(180 - r) + 1]
        ELSE IF r <= 270 THEN -SinTable[(r - 180) + 1]
        ELSE -SinTable[(360 - r) + 1]

\* math.cos(math.radians(a)), a in whole degrees
CosDeg(a) == SinDeg(a + 90)

\* the double math.cos(math.radians(+-90)) is 6.1e-17, never 0.0
CosResidue == 1

\* math.cos(math.radians(lat)) where the code divides by it
CosDivisor(lat) == IF CosDeg(lat) = 0 THEN CosResidue ELSE CosDeg(lat)

\* math.atan2(x, y) in whole degrees, in -179..180 (the angle of the first
\* argument over the second, as the code calls it)
atan2_deg(x, y) ==
    IF x = 0 THEN (IF y >= 0 THEN 0 ELSE 180)
    ELSE LET t == Cardinality({a \in 1..90 :
                      SinDeg(a) * Abs(y) <= CosDeg(a) * Abs(x)})
             u == IF y >= 0 THEN t ELSE 180 - t
         IN  Sgn(x) * u

(* ------------------------- geopy.distance.geodesic --------------------- *)
(* The distance provider is a library, not code of the repository.  It is  *)
(* modelled by what the code relies on: a symmetric distance in meters,    *)
(* 0 between two descriptions of one place (equal points, longitudes 360   *)
(* degrees apart, any two longitudes at a pole), positive otherwise, and a *)
(* ValueError for a latitude outside [-90, 90].  The distance is the       *)
(* length of the (north, east) displacement in whole kilometers.           *)

\* meters per degree of arc of the distance provider (mean Earth radius)
GeodesicMetersPerDegree == 111195

\* geopy's Point accepts a latitude in [-90, 90] only (ValueError otherwise)
LatitudeValid(lat) == -90 <= lat /\ lat <= 90

\* geopy's Point normalises a longitude into [-180, 180)
NormalizeLongitude(lon) == ((lon + 180) % 360) - 180

RECURSIVE ISqrtBetween(_, _, _)
\* the largest r in lo..hi with r * r <= n (hi * hi must not overflow)
ISqrtBetween(n, lo, hi) ==
    IF lo >= hi THEN lo
    ELSE LET mid == (lo + hi + 1) \div 2
         IN  IF mid * mid <= n THEN ISqrtBetween(n, mid, hi)
             ELSE ISqrtBetween(n, lo, mid - 1)

ISqrt(n) == ISqrtBetween(n, 0, 46340)

\* kilometers between two valid (lat, lon) points
GeodesicKm(p, q) ==
    LET dlat == q[1] - p[1]
        dlon == NormalizeLongitude(q[2] - p[2])
        coslat == (CosDeg(p[1]) + CosDeg(q[1])) \div 2
        north == RDiv(dlat * GeodesicMetersPerDegree, 1000)
        east == RDiv(MulTrig(dlon * GeodesicMetersPerDegree, coslat), 1000)
    IN  ISqrt(north * north + east * east)

\* geodesic(p, q).meters: raises ValueError on an invalid latitude
geodesic(p, q) ==
    IF LatitudeValid(p[1]) /\ LatitudeValid(q[1])
    THEN [ok |-> TRUE, meters |-> GeodesicKm(p, q) * 1000]
    ELSE [ok |-> FALSE, meters |-> 0]

(* ------------------------------ outcomes ------------------------------- *)
Returned(t) == [kind |-> "returned", value |-> t, exc |-> "none"]

Raised(e) == [kind |-> "raised", value |-> <<>>, exc |-> e]

NotCalled == [kind |-> "none", value |-> <<>>, exc |-> "none"]

Max(a, b) == IF a >= b THEN a ELSE b

Min(a, b) == IF a <= b THEN a ELSE b

(* --------------- utils/location_functions.py, parametric --------------- *)
(* The speed argument is a float: it is held as the exact quotient         *)
(* num / den (den > 0), so that a speed derived from a track can be passed *)
(* without rounding it to a whole number first.                            *)
Float(n) == [num |-> n, den |-> 1]

\* lines 30-31: the meters in one degree of latitude
MetersPerDegree == 111111

\* whether current_lat + lat_change, before it is rounded to whole degrees,
\* is a latitude geodesic() accepts: the sum is compared in meters of
\* latitude, so that a move of less than half a degree past a pole counts
PredictedLatitudeValid(current_lat, distance_traveled, direction) ==
    Abs(current_lat * MetersPerDegree
        + MulTrig(distance_traveled, CosDeg(direction)))
        <= 90 * MetersPerDegree

\* mutant of DistTraveledDirSpeed: the time interval floored at one second
DistTraveledDirSpeed_MinTime(speed, time) ==
    RDiv(speed.num * 1000 * (IF time >= 1 THEN time ELSE 1), 3600 * speed.den)

\* line 27: distance_traveled = ((speed * 1000)/3600) * time
DistTraveledDirSpeed(speed, time) ==
    RDiv(speed.num * 1000 * time, 3600 * speed.den)

\* line 43: ((total_distance - remaining_distance) / total_distance) * 100
RawPercent(total_distance, remaining_distance) ==
    RDiv((total_distance - remaining_distance) * 100, total_distance)

\* mutant of ClampDirSpeed: the percentage is not clamped
ClampDirSpeed_None(percent_complete) == percent_complete

\* line 45: max(0, min(100, percent_complete))
ClampDirSpeed(percent_complete) == Max(0, Min(100, percent_complete))

\* mutant of PercentDirSpeed: a zero total distance counts as no progress
PercentDirSpeed_ZeroAtTarget(total_distance, remaining_distance) ==
    IF total_distance > 0
    THEN Max(0, Min(100, RawPercent(total_distance, remaining_distance)))
    ELSE 0

\* lines 42-47: the percentage of the trip done
PercentDirSpeed(total_distance, remaining_distance) ==
    IF total_distance > 0
    THEN ClampDirSpeed(RawPercent(total_distance, remaining_distance))
    ELSE 100

\* lines 5-49
predict_future_dist_with_dir_and_speed(current_long, current_lat, target_long, target_lat, direction, speed, time) ==
    LET distance_traveled == DistTraveledDirSpeed(speed, time)
        lat_change == RDiv(MulTrig(distance_traveled, CosDeg(direction)),
                           MetersPerDegree)
        lon_change == RDiv(MulTrig(distance_traveled, SinDeg(direction)),
                           MulTrig(MetersPerDegree, CosDivisor(current_lat)))
        Predicted_latitude == current_lat + lat_change
        Predicted_longitude == current_long + lon_change
        total == geodesic(<<current_lat, current_long>>,
                          <<target_lat, target_long>>)
        remaining == geodesic(<<Predicted_latitude, Predicted_longitude>>,
                              <<target_lat, target_long>>)
    IN  IF \/ ~total.ok
           \/ ~PredictedLatitudeValid(current_lat, distance_traveled, direction)
           \/ ~remaining.ok
        THEN Raised("ValueError")
        ELSE Returned(<<Predicted_longitude, Predicted_latitude,
                        distance_traveled,
                        PercentDirSpeed(total.meters, remaining.meters)>>)

(* ------------------------- loc_predict_func.py ------------------------- *)
\* lines 26-29: speed_ms = speed * 1000; distance_traveled = speed_ms * time
DistTraveledFutureDistance(speed, time) ==
    LET speed_ms_num == speed.num * 1000
    IN  RDiv(speed_ms_num * time, speed.den)

\* line 54: max(0, min(100, percent_complete))
ClampFutureDistance(percent_complete) == Max(0, Min(100, percent_complete))

\* lines 51-56
PercentFutureDistance(total_distance, remaining_distance) ==
    IF total_distance > 0
    THEN ClampFutureDistance(RawPercent(total_distance, remaining_distance))
    ELSE 100

\* lines 4-58
predict_future_distance(current_long, current_lat, target_long, target_lat, direction, speed, time) ==
    LET distance_traveled == DistTraveledFutureDistance(speed, time)
        lat_change == RDiv(MulTrig(distance_traveled, CosDeg(direction)),
                           MetersPerDegree)
        lon_change == RDiv(MulTrig(distance_traveled, SinDeg(direction)),
                           MulTrig(MetersPerDegree, CosDivisor(current_lat)))
        future_latitude == current_lat + lat_change
        future_longitude == current_long + lon_change
        total == geodesic(<<current_lat, current_long>>,
                          <<target_lat, target_long>>)
        remaining == geodesic(<<future_latitude, future_longitude>>,
                              <<target_lat, target_long>>)
    IN  IF \/ ~total.ok
           \/ ~PredictedLatitudeValid(current_lat, distance_traveled, direction)
           \/ ~remaining.ok
        THEN Raised("ValueError")
        ELSE Returned(<<future_longitude, future_latitude,
                        distance_traveled,
                        PercentFutureDistance(total.meters, remaining.meters)>>)

(* ---------------- utils/location_functions.py, history ----------------- *)
(* A history entry is <<timestamp, latitude, longitude>> (Python indexes   *)
(* 0, 1, 2).  A timestamp is the ISO-8601 string "2025-01-01T00:mm:ss",    *)
(* held as <<mm, ss>>.                                                     *)

\* datetime.fromisoformat(ts): the instant, in seconds after 00:00:00
fromisoformat(ts) == ts[1] * 60 + ts[2]

\* lines 53-60
\* _bearing returning the atan2 angle as it is, in (-180, 180]
_bearing_Raw(p1, p2) ==
    LET lat1 == p1[1]
        lon1 == p1[2]
        lat2 == p2[1]
        lon2 == p2[2]
        dlon == lon2 - lon1
        x == RDiv(SinDeg(dlon) * CosDeg(lat2), TrigScale)
        y == RDiv(CosDeg(lat1) * SinDeg(lat2), TrigScale)
             - RDiv(RDiv(SinDeg(lat1) * CosDeg(lat2), TrigScale) * CosDeg(dlon),
                    TrigScale)
    IN  atan2_deg(x, y)

_bearing(p1, p2) ==
    LET lat1 == p1[1]
        lon1 == p1[2]
        lat2 == p2[1]
        lon2 == p2[2]
        dlon == lon2 - lon1
        x == RDiv(SinDeg(dlon) * CosDeg(lat2), TrigScale)
        y == RDiv(CosDeg(lat1) * SinDeg(lat2), TrigScale)
             - RDiv(RDiv(SinDeg(lat1) * CosDeg(lat2), TrigScale) * CosDeg(dlon),
                    TrigScale)
        brng == atan2_deg(x, y)
    IN  (brng + 360) % 360

\* lines 81-84: the two entries the prediction is derived from
FirstEntry(history) == history[1]

\* mutant of LastEntry: off by one, the entry before the last
LastEntry_BeforeLast(history) ==
    history[IF Len(history) >= 2 THEN Len(history) - 1 ELSE 1]

LastEntry(history) == history[Len(history)]

\* mutant of HistoryTime: the elapsed time floored at one second
HistoryTime_MinOne(history) ==
    Max(1, fromisoformat(history[Len(history)][1]) - fromisoformat(history[1][1]))

\* line 92: (fromisoformat(history[-1][0]) - fromisoformat(history[0][0])).total_seconds()
HistoryTime(history) ==
    fromisoformat(LastEntry(history)[1]) - fromisoformat(FirstEntry(history)[1])

\* mutant of PercentHistory: the percentage is not clamped
PercentHistory_NoClamp(total_distance, remaining_distance) ==
    IF total_distance > 0
    THEN RawPercent(total_distance, remaining_distance)
    ELSE 100

\* lines 112-117
PercentHistory(total_distance, remaining_distance) ==
    IF total_distance > 0
    THEN Max(0, Min(100, RawPercent(total_distance, remaining_distance)))
    ELSE 100

\* lines 97-119, once speed = meters / historytime is known;
\* distance_traveled = speed * time is rounded once
HistoryProjection(current_long, current_lat, target_long, target_lat, direction, meters, historytime, time) ==
    LET distance_traveled == RDiv(meters * time, historytime)
        lat_change == RDiv(MulTrig(distance_traveled, CosDeg(direction)),
                           MetersPerDegree)
        lon_change == RDiv(MulTrig(distance_traveled, SinDeg(direction)),
                           MulTrig(MetersPerDegree, CosDivisor(current_lat)))
        Predicted_latitude == current_lat + lat_change
        Predicted_longitude == current_long + lon_change
        total == geodesic(<<current_lat, current_long>>,
                          <<target_lat, target_long>>)
        remaining == geodesic(<<Predicted_latitude, Predicted_longitude>>,
                              <<target_lat, target_long>>)
    IN  IF \/ ~total.ok
           \/ ~PredictedLatitudeValid(current_lat, distance_traveled, direction)
           \/ ~remaining.ok
        THEN Raised("ValueError")
        ELSE Returned(<<Predicted_longitude, Predicted_latitude,
                        distance_traveled,
                        PercentHistory(total.meters, remaining.meters)>>)

\* lines 62-119
predict_future_dist_with_history(history, target_long, target_lat, time) ==
    IF Len(history) = 0 THEN Raised("IndexError")
    ELSE
    LET lat1 == FirstEntry(history)[2]
        lon1 == FirstEntry(history)[3]
        lat2 == LastEntry(history)[2]
        lon2 == LastEntry(history)[3]
        current_lat == LastEntry(history)[2]
        current_long == LastEntry(history)[3]
        direction == _bearing(<<lat1, lon1>>, <<lat2, lon2>>)
        historytime == HistoryTime(history)
        travelled == geodesic(<<lat1, lon1>>, <<lat2, lon2>>)
    IN  IF ~travelled.ok THEN Raised("ValueError")
        ELSE IF historytime = 0 THEN Raised("ZeroDivisionError")
        ELSE HistoryProjection(current_long, current_lat, target_long,
                               target_lat, direction, travelled.meters,
                               historytime, time)

(* ------------------------------- inputs -------------------------------- *)
\* coordinates are plain floats, nothing restricts them to the globe: 91 is a
\* latitude outside [-90, 90] and 181 a longitude outside [-180, 180]
Latitudes == {0, 1, 2, 60, 90, 91}

Longitudes == {0, 1, 181}

Directions == {0, 45, 90, 180, 270}

Speeds == {-4000, 0, 1} \cup {4000 * k : k \in 1..MaxSpeedMult}

Times == {-100} \cup {100 * k : k \in 0..MaxTimeMult}

ParametricArgs ==
    [current_long : Longitudes, current_lat : Latitudes,
     target_long : Longitudes, target_lat : Latitudes,
     direction : Directions, speed : Speeds, time : Times]

Timestamps == {<<0, 0>>, <<1, 40>>, <<3, 20>>}

TrackPoints == {<<0, 0>>, <<1, 0>>, <<1, 1>>}

Entries == {<<ts, p[1], p[2]>> : ts \in Timestamps, p \in TrackPoints}

Histories == UNION {[1..n -> Entries] : n \in 0..MaxLen}

HistoryArgs ==
    [history : Histories, target_long : {0, 1, 181}, target_lat : {1, 2},
     time : Times]

\* (lat, lon) points for _bearing: both hemispheres, a pole, and longitudes
\* on both sides of the antimeridian
BearingPoints == {-60, 0, 1, 60, 90} \X {-179, -1, 0, 1, 179}

BearingArgs == [p1 : BearingPoints, p2 : BearingPoints]

(* ---------------------------- state machine ---------------------------- *)
(* One call: Init draws the function and its arguments, the action is the  *)
(* whole call, and outcome is what the caller gets: the returned tuple or  *)
(* the exception raised.  heap and frames belong to the concurrent calls   *)
(* further down and stay empty here.                                       *)
VARIABLES fn, args, outcome, heap, frames

vars == <<fn, args, outcome, heap, frames>>

Init ==
    /\ outcome = NotCalled
    /\ heap = <<>>
    /\ frames = <<>>
    /\ \/ /\ fn \in {"predict_future_dist_with_dir_and_speed",
                     "predict_future_distance"}
          /\ args \in ParametricArgs
       \/ /\ fn = "predict_future_dist_with_history"
          /\ args \in HistoryArgs
       \/ /\ fn = "_bearing"
          /\ args \in BearingArgs

Call_dir_and_speed ==
    /\ fn = "predict_future_dist_with_dir_and_speed"
    /\ outcome.kind = "none"
    /\ outcome' = predict_future_dist_with_dir_and_speed(
                      args.current_long, args.current_lat, args.target_long,
                      args.target_lat, args.direction, Float(args.speed),
                      args.time)
    /\ UNCHANGED <<fn, args, heap, frames>>

Call_future_distance ==
    /\ fn = "predict_future_distance"
    /\ outcome.kind = "none"
    /\ outcome' = predict_future_distance(
                      args.current_long, args.current_lat, args.target_long,
                      args.target_lat, args.direction, Float(args.speed),
                      args.time)
    /\ UNCHANGED <<fn, args, heap, frames>>

Call_history ==
    /\ fn = "predict_future_dist_with_history"
    /\ outcome.kind = "none"
    /\ outcome' = predict_future_dist_with_history(
                      args.history, args.target_long, args.target_lat,
                      args.time)
    /\ UNCHANGED <<fn, args, heap, frames>>

Call_bearing ==
    /\ fn = "_bearing"
    /\ outcome.kind = "none"
    /\ outcome' = Returned(_bearing(args.p1, args.p2))
    /\ UNCHANGED <<fn, args, heap, frames>>

Next ==
    \/ Call_dir_and_speed
    \/ Call_future_distance
    \/ Call_history
    \/ Call_bearing

Spec == Init /\ [][Next]_vars

(* --------------------------- concurrent calls -------------------------- *)
(* Two threads call predict_future_dist_with_history at the same time and  *)
(* pass the same list object: heap is that list as it is in memory, args   *)
(* is what each caller passed, frames holds each call's local variables    *)
(* and the statement it is about to run. A thread switch can come between  *)
(* any two statements; the statements that touch the list are lines 81-86  *)
(* and line 92, everything else works on locals.                           *)
Calls == {"A", "B"}

ConcHistories == UNION {[1..n -> Entries] : n \in 0..MaxConcLen}

\* the frame of a call that has bound its arguments and run nothing yet
NewFrame ==
    [pc |-> "line81", lat1 |-> 0, lon1 |-> 0, lat2 |-> 0, lon2 |-> 0,
     direction |-> 0, historytime |-> 0, result |-> NotCalled]

InitConc ==
    /\ fn = "predict_future_dist_with_history"
    /\ outcome = NotCalled
    /\ heap \in ConcHistories
    /\ \E target_long \in {0, 1}, time \in [Calls -> Times] :
           args = [c \in Calls |->
                      [history |-> heap, target_long |-> target_long,
                       target_lat |-> 1, time |-> time[c]]]
    /\ frames = [c \in Calls |-> NewFrame]

\* lines 81-86, with history.pop() in place of history[-1]: the read of the
\* last entry takes it off the list
ReadEndpoints_Pop(c) ==
    /\ frames[c].pc = "line81"
    /\ IF Len(heap) = 0
       THEN /\ frames' = [frames EXCEPT ![c].pc = "done",
                                        ![c].result = Raised("IndexError")]
            /\ heap' = heap
       ELSE /\ frames' = [frames EXCEPT ![c].pc = "line89",
                                        ![c].lat1 = FirstEntry(heap)[2],
                                        ![c].lon1 = FirstEntry(heap)[3],
                                        ![c].lat2 = LastEntry(heap)[2],
                                        ![c].lon2 = LastEntry(heap)[3]]
            /\ heap' = SubSeq(heap, 1, Len(heap) - 1)
    /\ UNCHANGED <<fn, args, outcome>>

\* lines 81-86: the coordinates of history[0] and history[-1] go to locals
ReadEndpoints(c) ==
    /\ frames[c].pc = "line81"
    /\ IF Len(heap) = 0
       THEN frames' = [frames EXCEPT ![c].pc = "done",
                                     ![c].result = Raised("IndexError")]
       ELSE frames' = [frames EXCEPT ![c].pc = "line89",
                                     ![c].lat1 = FirstEntry(heap)[2],
                                     ![c].lon1 = FirstEntry(heap)[3],
                                     ![c].lat2 = LastEntry(heap)[2],
                                     ![c].lon2 = LastEntry(heap)[3]]
    /\ UNCHANGED <<fn, args, outcome, heap>>

\* lines 89-92: the heading from the locals, then the second read of the
\* list, for the timestamps of history[-1] and history[0]
ReadTimes(c) ==
    /\ frames[c].pc = "line89"
    /\ IF Len(heap) = 0
       THEN frames' = [frames EXCEPT ![c].pc = "done",
                                     ![c].result = Raised("IndexError")]
       ELSE frames' = [frames EXCEPT
                          ![c].pc = "line95",
                          ![c].direction =
                              _bearing(<<frames[c].lat1, frames[c].lon1>>,
                                       <<frames[c].lat2, frames[c].lon2>>),
                          ![c].historytime = HistoryTime(heap)]
    /\ UNCHANGED <<fn, args, outcome, heap>>

\* lines 95-119: speed, projection and percentage from the locals and the
\* call's own target and time, and the return of a new tuple
Project(c) ==
    /\ frames[c].pc = "line95"
    /\ LET f == frames[c]
           travelled == geodesic(<<f.lat1, f.lon1>>, <<f.lat2, f.lon2>>)
           result ==
               IF ~travelled.ok THEN Raised("ValueError")
               ELSE IF f.historytime = 0 THEN Raised("ZeroDivisionError")
               ELSE HistoryProjection(f.lon2, f.lat2, args[c].target_long,
                                      args[c].target_lat, f.direction,
                                      travelled.meters, f.historytime,
                                      args[c].time)
       IN  frames' = [frames EXCEPT ![c].pc = "done", ![c].result = result]
    /\ UNCHANGED <<fn, args, outcome, heap>>

NextConc ==
    \E c \in Calls :
        \/ ReadEndpoints(c)
        \/ ReadTimes(c)
        \/ Project(c)

SpecConc == InitConc /\ [][NextConc]_vars

(* ------------------------------ properties ----------------------------- *)
ParametricCall ==
    fn \in {"predict_future_dist_with_dir_and_speed", "predict_future_distance"}

HistoryCall == fn = "predict_future_dist_with_history"

Called == outcome.kind # "none"

HasReturned == outcome.kind = "returned"

\* the current position the call projects from, as (lat, lon)
CurrentPoint ==
    IF ParametricCall THEN <<args.current_lat, args.current_long>>
    ELSE <<args.history[Len(args.history)][2],
           args.history[Len(args.history)][3]>>

TargetPoint == <<args.target_lat, args.target_long>>

\* the returned tuple's fields
ResultLongitude == outcome.value[1]

ResultLatitude == outcome.value[2]

ResultDistance == outcome.value[3]

ResultPercent == outcome.value[4]

\* the raw percentage the returned tuple was clamped from (total > 0)
ResultRawPercent ==
    RawPercent(geodesic(CurrentPoint, TargetPoint).meters,
               geodesic(<<ResultLatitude, ResultLongitude>>,
                        TargetPoint).meters)

\* C1: every returned tuple, of each of the three predictors, has
\* 0 <= percent_complete <= 100, whatever the raw percentage is.
C1_PercentClamped ==
    ((ParametricCall \/ HistoryCall) /\ HasReturned)
    => (0 <= ResultPercent /\ ResultPercent <= 100)

\* C1 witness: predict_future_dist_with_dir_and_speed returned a tuple whose
\* raw percentage is negative (the move is away from the target).
C1_Witness ==
    /\ fn = "predict_future_dist_with_dir_and_speed"
    /\ HasReturned
    /\ args.speed > 0
    /\ args.time > 0
    /\ geodesic(CurrentPoint, TargetPoint).meters > 0
    /\ ResultRawPercent < 0
    /\ ResultPercent = 0

\* C2: in both parametric predictors, current = target gives
\* percent_complete = 100 for every heading, speed >= 0 and time >= 0,
\* wherever the predicted point lands.
C2_AtTargetIsComplete ==
    (/\ ParametricCall
     /\ HasReturned
     /\ CurrentPoint = TargetPoint
     /\ args.speed >= 0
     /\ args.time >= 0) => ResultPercent = 100

\* C2 witness: current = target, and the predicted point is somewhere else.
C2_Witness ==
    /\ ParametricCall
    /\ HasReturned
    /\ CurrentPoint = TargetPoint
    /\ args.speed > 0
    /\ args.time > 0
    /\ <<ResultLatitude, ResultLongitude>> # CurrentPoint
    /\ ResultPercent = 100

\* C3: in both parametric predictors, time = 0 or speed = 0 returns the
\* current position unchanged, distance_traveled = 0 and a percentage that
\* depends on current and target only: 100 when they are the same place
\* (total distance 0), 0 otherwise; for every heading.
C3_ZeroHorizon ==
    (/\ ParametricCall
     /\ Called
     /\ (args.time = 0 \/ args.speed = 0)
     /\ LatitudeValid(args.current_lat)
     /\ LatitudeValid(args.target_lat))
    => /\ HasReturned
       /\ ResultLongitude = args.current_long
       /\ ResultLatitude = args.current_lat
       /\ ResultDistance = 0
       /\ ResultPercent =
              (IF geodesic(CurrentPoint, TargetPoint).meters = 0
               THEN 100 ELSE 0)

\* C3 witness: a zero time horizon with a positive speed, away from target.
C3_Witness ==
    /\ ParametricCall
    /\ HasReturned
    /\ args.time = 0
    /\ args.speed > 0
    /\ CurrentPoint # TargetPoint
    /\ ResultPercent = 0

\* C4 (as claimed): the parametric predictors reject a negative time or a
\* negative speed (InvalidArgument): the call fails and returns no tuple.
C4_NegativeRejected ==
    (/\ ParametricCall
     /\ Called
     /\ (args.time < 0 \/ args.speed < 0))
    => outcome.kind = "raised"

\* C5 (as claimed): in history mode a track of at least 2 entries whose
\* elapsed time (last timestamp - first timestamp) is <= 0 fails and returns
\* no prediction.
C5_NonPositiveElapsedFails ==
    (/\ HistoryCall
     /\ Called
     /\ Len(args.history) >= 2
     /\ fromisoformat(args.history[Len(args.history)][1])
            - fromisoformat(args.history[1][1]) <= 0)
    => outcome.kind = "raised"

TrackFirst == args.history[1]

TrackLast == args.history[Len(args.history)]

TrackElapsed == fromisoformat(TrackLast[1]) - fromisoformat(TrackFirst[1])

TrackMeters ==
    geodesic(<<TrackFirst[2], TrackFirst[3]>>,
             <<TrackLast[2], TrackLast[3]>>).meters

TrackBearing ==
    _bearing(<<TrackFirst[2], TrackFirst[3]>>, <<TrackLast[2], TrackLast[3]>>)

\* C7: history mode reads the first and the last entry only: the outcome
\* for a track is the outcome for the two-entry track of its first and last
\* entry, so two tracks that share both ends have the same outcome whatever
\* lies between.
C7_EndpointsOnly ==
    (HistoryCall /\ Called /\ Len(args.history) >= 1)
    => outcome = predict_future_dist_with_history(
                     <<TrackFirst, TrackLast>>, args.target_long,
                     args.target_lat, args.time)

\* C7 witness: a three-entry track whose middle entry is neither its first
\* nor its last, in place or in time, gave a prediction.
C7_Witness ==
    /\ HistoryCall
    /\ HasReturned
    /\ Len(args.history) = 3
    /\ args.history[2][1] \notin {TrackFirst[1], TrackLast[1]}
    /\ <<args.history[2][2], args.history[2][3]>>
           \notin {<<TrackFirst[2], TrackFirst[3]>>,
                   <<TrackLast[2], TrackLast[3]>>}
    /\ TrackElapsed > 0
    /\ args.time > 0
    /\ ResultDistance > 0

RECURSIVE GCD(_, _)
GCD(a, b) == IF b = 0 THEN a ELSE GCD(b, a % b)

\* the quotient n / d (d # 0) in lowest terms, with a positive denominator
Quotient(n, d) ==
    LET g == GCD(Abs(n), Abs(d))
    IN  [num |-> Sgn(d) * (n \div g), den |-> Abs(d) \div g]

\* the track's speed, meters / elapsed seconds, in the unit each parametric
\* predictor's arithmetic takes: km/h for line 27 of location_functions.py
\* (m/s * 3600 / 1000), km/s for line 26 of loc_predict_func.py (m/s / 1000)
TrackSpeedKmh == Quotient(TrackMeters * 18, TrackElapsed * 5)

TrackSpeedKms == Quotient(TrackMeters, TrackElapsed * 1000)

C9_SpeedIsKmPerSecond ==
    (ParametricCall /\ HasReturned /\ args.speed > 0 /\ args.time > 0)
    => ResultDistance = args.speed * 1000 * args.time

\* C10 (as claimed): a current latitude of +-90 degrees, where the cosine in
\* the longitude projection is zero, is detected and reported as an error
\* (NumericDegenerate) by both predictor modes: a call that moves (speed > 0,
\* time > 0) from there returns no result.
C10_PoleReturnsNoResult ==
    (/\ Called
     /\ (ParametricCall \/ (HistoryCall /\ Len(args.history) >= 1))
     /\ Abs(CurrentPoint[1]) = 90
     /\ args.time > 0
     /\ (ParametricCall => args.speed > 0))
    => outcome.kind = "raised"

\* a latitude within [-90, 90] and a longitude within [-180, 180]
CoordinateInRange(lat, lon) ==
    /\ -90 <= lat /\ lat <= 90
    /\ -180 <= lon /\ lon <= 180

\* every coordinate the call was given (current, target, track samples) is
\* in range
InputsInRange ==
    /\ CoordinateInRange(args.target_lat, args.target_long)
    /\ IF ParametricCall
       THEN CoordinateInRange(args.current_lat, args.current_long)
       ELSE \A i \in 1..Len(args.history) :
                CoordinateInRange(args.history[i][2], args.history[i][3])

\* C11 (as claimed): both predictor modes reject an input coordinate with a
\* latitude outside [-90, 90] or a longitude outside [-180, 180]: the call
\* with otherwise ordinary arguments (speed >= 0, time >= 0) fails and
\* returns no result.
C11_OutOfRangeRejected ==
    (/\ ParametricCall \/ HistoryCall
     /\ Called
     /\ ~InputsInRange
     /\ args.time >= 0
     /\ (ParametricCall => args.speed >= 0))
    => outcome.kind = "raised"

\* what a call alone returns for the arguments call c was given
ResultAlone(c) ==
    predict_future_dist_with_history(args[c].history, args[c].target_long,
                                     args[c].target_lat, args[c].time)

\* C12: the predictors are pure. While two calls that share one history
\* list run interleaved, the list stays as it was passed, each finished call
\* has the result the same call has when run alone, and two finished calls
\* with the same arguments have the same result.
C12_CallsArePure ==
    \A c \in Calls :
        /\ heap = args[c].history
        /\ frames[c].pc = "done" => frames[c].result = ResultAlone(c)
        /\ \A d \in Calls :
               (/\ frames[c].pc = "done"
                /\ frames[d].pc = "done"
                /\ args[c] = args[d]) => frames[c].result = frames[d].result

\* C12 witness: call B ran from start to end and returned a tuple while call
\* A, given another time horizon, was between its two reads of the shared
\* list.
C12_Witness ==
    /\ frames["A"].pc = "line89"
    /\ frames["B"].pc = "done"
    /\ frames["B"].result.kind = "returned"
    /\ args["B"].time >= 0
    /\ args["A"].time > args["B"].time
    /\ Len(heap) = 2

BearingCall == fn = "_bearing"

\* the sine of the longitude difference p2 - p1: positive when p2 lies to
\* the east of p1 by the short way round, negative when to the west
EastWest == SinDeg(args.p2[2] - args.p1[2])

\* C13: _bearing(p1, p2) is a compass bearing in [0, 360) for every pair of
\* points, p1 = p2 and westward pairs (negative atan2 angle) included:
\* 0 is north and angles grow clockwise, so a displacement due north gives
\* 0 and due south 180, along the equator due east gives 90 and due west
\* 270, and away from the poles every eastward displacement lies in
\* [0, 180] and every westward one in [180, 360) or at 0.
C13_BearingIsCompass ==
    (BearingCall /\ HasReturned)
    => LET lat1 == args.p1[1]
           lat2 == args.p2[1]
           brng == outcome.value
       IN  /\ 0 <= brng /\ brng < 360
           /\ (EastWest = 0 /\ args.p1[2] = args.p2[2] /\ lat2 > lat1)
                  => brng = 0
           /\ (EastWest = 0 /\ args.p1[2] = args.p2[2] /\ lat2 < lat1)
                  => brng = 180
           /\ (lat1 = 0 /\ lat2 = 0 /\ EastWest > 0) => brng = 90
           /\ (lat1 = 0 /\ lat2 = 0 /\ EastWest < 0) => brng = 270
           /\ (Abs(lat1) < 90 /\ Abs(lat2) < 90 /\ EastWest > 0)
                  => brng <= 180
           /\ (Abs(lat1) < 90 /\ Abs(lat2) < 90 /\ EastWest < 0)
                  => (brng = 0 \/ brng >= 180)

\* C13 witness: a westward pair off the equator, whose atan2 angle is
\* negative, returned a bearing in the western half of the compass.
C13_Witness ==
    /\ BearingCall
    /\ HasReturned
    /\ args.p1[1] = 60
    /\ args.p2[1] = 1
    /\ EastWest < 0
    /\ _bearing_Raw(args.p1, args.p2) < 0
    /\ outcome.value > 180
    /\ outcome.value < 270

====
